---- MODULE Spec2Model ----
(***************************************************************************)
(* Model of the Marco CLI agent: one process run of main, from loading the *)
(* configuration to process exit.  The pipeline is                         *)
(*   config.Load -> intentparser.Init -> cobra Execute -> RunE ->          *)
(*   intentparser.LLMParse -> orchestrator.RouteIntent -> fs.HandleIntent  *)
(* The LLM backend, the process environment, the command line and the      *)
(* user at the terminal are the environment of the program.                *)
(* A second specification, ParseSpec, runs the intentparser package alone  *)
(* with several goroutines calling LLMParse side by side.                  *)
(***************************************************************************)
EXTENDS Integers, Sequences, FiniteSets, TLC

VARIABLES
    env,        \* process environment: CLI_AGENT_CONFIG, home directory, files
    args,       \* command line after the program name
    userAnswer, \* what the user at the terminal would answer if asked to confirm
    pc,         \* position of main
    cfg,        \* result of config.Load
    client,     \* package-level intentparser.client
    resp,       \* what client.Chat.Completions.New returned
    parseRes,   \* what LLMParse returned
    routeRes,   \* what RouteIntent returned
    trace,      \* calls made across component boundaries, in order
    stdout,     \* what the process wrote to standard output, in order
    exitErr,    \* the error Execute returned to main or the process ended with
    exitCode,   \* process exit status, -1 while running
    calls       \* LLMParse calls of concurrent callers of the package

vars == <<env, args, userAnswer, pc, cfg, client, resp, parseRes, routeRes,
          trace, stdout, exitErr, exitCode, calls>>

----------------------------------------------------------------------------
(* Bounds of the model *)

\* most words on the command line
MaxArgs == 2
\* most choices in one chat completion
MaxChoices == 2
\* goroutines calling LLMParse side by side
MaxCallers == 2
\* most LLMParse calls they make together
MaxCalls == 3
\* most calls of Init
MaxInits == 2

----------------------------------------------------------------------------
(* Values *)

EmptyParams == [k \in {} |-> ""]

\* Params maps the backend's JSON can carry
ParamMaps == {EmptyParams, [k \in {"path"} |-> "src"]}

Absent == [t |-> "absent", v |-> ""]
Num == [t |-> "num", v |-> ""]
Str(s) == [t |-> "str", v |-> s]

\* a JSON member that should be a string: absent or null, a number, or a string
ModuleFields == {Absent, Num} \cup {Str(s) : s \in {"", "fs", "canvas", "mail"}}
NameFields == {Absent, Num}
                 \cup {Str(s) : s \in {"", "list_dir", "delete_file", "frobnicate"}}
\* the "params" member: absent or null, not an object of strings, or an object
ParamFields == {[t |-> "absent", v |-> EmptyParams], [t |-> "bad", v |-> EmptyParams]}
                  \cup {[t |-> "obj", v |-> m] : m \in ParamMaps}

NoObject(kind) ==
    [kind |-> kind, module |-> Absent, intent |-> Absent,
     params |-> [t |-> "absent", v |-> EmptyParams]]

\* message contents: text that is not JSON, JSON that is not an object, objects
Contents ==
    {NoObject(k) : k \in {"text", "null", "array"}}
      \cup [kind : {"object"}, module : ModuleFields, intent : NameFields,
            params : ParamFields]

\* the content of the choices after the first one
Filler == NoObject("text")

ZeroIntent == [Module |-> "", Name |-> "", Params |-> EmptyParams]

NoErr == [chain |-> <<>>, subject |-> ""]
Err(chain, subject) == [chain |-> chain, subject |-> subject]
Wrap(prefix, e) == [chain |-> <<prefix>> \o e.chain, subject |-> e.subject]
IsErr(e) == e.chain # <<>>

----------------------------------------------------------------------------
(* pkg/config *)

DefaultPath == "~/.marco/config.yaml"

getConfigPath(e) ==
    IF e.custom # "" THEN [path |-> e.custom, err |-> NoErr]
    ELSE IF ~e.homeOk
         THEN [path |-> "", err |-> Err(<<"could not determine home directory">>, "")]
         ELSE [path |-> DefaultPath, err |-> NoErr]

\* Load without the check for an empty key
LoadNoKeyCheck(e) ==
    IF ~e.homeOk THEN [ok |-> FALSE, key |-> "", err |-> Err(<<"cannot find home dir">>, "")]
    ELSE LET p == getConfigPath(e) IN
         IF IsErr(p.err) THEN [ok |-> FALSE, key |-> "", err |-> p.err]
         ELSE LET f == e.files[p.path] IN
              IF f = "missing"
              THEN [ok |-> FALSE, key |-> "", err |-> Err(<<"reading config">>, p.path)]
              ELSE IF f = "badyaml"
              THEN [ok |-> FALSE, key |-> "", err |-> Err(<<"parsing config">>, "")]
              ELSE IF f = "nokey"
              THEN [ok |-> TRUE, key |-> "", err |-> NoErr]
              ELSE [ok |-> TRUE, key |-> f, err |-> NoErr]

\* a file is "missing", "badyaml" (not YAML), "nokey" (YAML with no or an
\* empty intentparser.llm_api_key), or else holds the key it names
Load(e) ==
    IF ~e.homeOk THEN [ok |-> FALSE, key |-> "", err |-> Err(<<"cannot find home dir">>, "")]
    ELSE LET p == getConfigPath(e) IN
         IF IsErr(p.err) THEN [ok |-> FALSE, key |-> "", err |-> p.err]
         ELSE LET f == e.files[p.path] IN
              IF f = "missing"
              THEN [ok |-> FALSE, key |-> "", err |-> Err(<<"reading config">>, p.path)]
              ELSE IF f = "badyaml"
              THEN [ok |-> FALSE, key |-> "", err |-> Err(<<"parsing config">>, "")]
              ELSE IF f = "nokey"
              THEN [ok |-> FALSE, key |-> "",
                    err |-> Err(<<"intentparser.llm_api_key is empty in">>, p.path)]
              ELSE [ok |-> TRUE, key |-> f, err |-> NoErr]

----------------------------------------------------------------------------
(* pkg/intentparser *)

\* Unmarshal accepting text that is not JSON as an empty object
UnmarshalLenient(raw) ==
    IF raw.kind \in {"text", "null"} THEN [ok |-> TRUE, intent |-> ZeroIntent]
    ELSE IF raw.kind # "object" THEN [ok |-> FALSE, intent |-> ZeroIntent]
    ELSE IF raw.module.t = "num" \/ raw.intent.t = "num" \/ raw.params.t = "bad"
         THEN [ok |-> FALSE, intent |-> ZeroIntent]
         ELSE [ok |-> TRUE,
               intent |-> [Module |-> raw.module.v, Name |-> raw.intent.v,
                           Params |-> raw.params.v]]

\* json.Unmarshal([]byte(raw), &intent)
Unmarshal(raw) ==
    IF raw.kind = "text" THEN [ok |-> FALSE, intent |-> ZeroIntent]
    ELSE IF raw.kind = "null" THEN [ok |-> TRUE, intent |-> ZeroIntent]
    ELSE IF raw.kind # "object" THEN [ok |-> FALSE, intent |-> ZeroIntent]
    ELSE IF raw.module.t = "num" \/ raw.intent.t = "num" \/ raw.params.t = "bad"
         THEN [ok |-> FALSE, intent |-> ZeroIntent]
         ELSE [ok |-> TRUE,
               intent |-> [Module |-> raw.module.v, Name |-> raw.intent.v,
                           Params |-> raw.params.v]]

\* Validate forgetting the action name
ValidateModuleOnly(intent) == intent.Module # ""

\* the required-fields check of LLMParse
Validate(intent) == intent.Module # "" /\ intent.Name # ""

\* LLMParse returning the incomplete intent together with the error
LLMParseBothOnMissing(r) ==
    IF r.kind = "error"
    THEN [panic |-> FALSE, ok |-> FALSE, intent |-> ZeroIntent,
          err |-> Err(<<"LLM API error">>, r.cause)]
    ELSE IF Len(r.choices) = 0
    THEN [panic |-> TRUE, ok |-> FALSE, intent |-> ZeroIntent,
          err |-> Err(<<"index out of range">>, "")]
    ELSE LET raw == r.choices[1]
             u == Unmarshal(raw) IN
         IF ~u.ok
         THEN [panic |-> FALSE, ok |-> FALSE, intent |-> ZeroIntent,
               err |-> Err(<<"invalid JSON from LLM">>, raw)]
         ELSE IF ~Validate(u.intent)
         THEN [panic |-> FALSE, ok |-> FALSE, intent |-> u.intent,
               err |-> Err(<<"parsed JSON missing fields">>, u.intent)]
         ELSE [panic |-> FALSE, ok |-> TRUE, intent |-> u.intent, err |-> NoErr]

\* LLMParse from the point where client.Chat.Completions.New has returned r
LLMParse(r) ==
    IF r.kind = "error"
    THEN [panic |-> FALSE, ok |-> FALSE, intent |-> ZeroIntent,
          err |-> Err(<<"LLM API error">>, r.cause)]
    ELSE IF Len(r.choices) = 0
    THEN [panic |-> TRUE, ok |-> FALSE, intent |-> ZeroIntent,
          err |-> Err(<<"index out of range">>, "")]
    ELSE LET raw == r.choices[1]
             u == Unmarshal(raw) IN
         IF ~u.ok
         THEN [panic |-> FALSE, ok |-> FALSE, intent |-> ZeroIntent,
               err |-> Err(<<"invalid JSON from LLM">>, raw)]
         ELSE IF ~Validate(u.intent)
         THEN [panic |-> FALSE, ok |-> FALSE, intent |-> ZeroIntent,
               err |-> Err(<<"parsed JSON missing fields">>, u.intent)]
         ELSE [panic |-> FALSE, ok |-> TRUE, intent |-> u.intent, err |-> NoErr]

----------------------------------------------------------------------------
(* pkg/mcp *)

Call(op, module, name, params) ==
    [op |-> op, module |-> module, name |-> name, params |-> params]

\* the calls of one operation made so far, in order
CallsOf(op) == SelectSeq(trace, LAMBDA c : c.op = op)

\* fs.HandleIntent: every name is handled, none is refused
HandleIntent(name, params) ==
    [out |-> [text |-> "Handled fs intent", name |-> name, params |-> params],
     err |-> NoErr,
     calls |-> <<Call("HandleIntent", "fs", name, params)>>]

NoOut == [text |-> "", name |-> "", params |-> EmptyParams]

\* RouteIntent sending every module's intents to fs
RouteIntentAnyModule(intent) == HandleIntent(intent.Name, intent.Params)

\* RouteIntent losing the parameters on the way to fs
RouteIntentDropParams(intent) ==
    IF intent.Module = "fs"
    THEN HandleIntent(intent.Name, EmptyParams)
    ELSE [out |-> NoOut, err |-> Err(<<"Unknown module">>, intent.Module),
          calls |-> <<>>]

\* RouteIntent calling the handler a second time
RouteIntentRetry(intent) ==
    IF intent.Module = "fs"
    THEN LET h == HandleIntent(intent.Name, intent.Params) IN
         [out |-> h.out, err |-> h.err, calls |-> h.calls \o h.calls]
    ELSE [out |-> NoOut, err |-> Err(<<"Unknown module">>, intent.Module),
          calls |-> <<>>]

\* RouteIntent consulting process state besides the intent
RouteIntentByConfig(intent) ==
    IF intent.Module = "fs" /\ env.custom = ""
    THEN HandleIntent(intent.Name, intent.Params)
    ELSE [out |-> NoOut, err |-> Err(<<"Unknown module">>, intent.Module),
          calls |-> <<>>]

\* RouteIntent picking the action from the user's text
RouteIntentReadsText(intent) ==
    IF intent.Module = "fs"
    THEN HandleIntent(IF Tail(args)[1] = "delete it" THEN "delete_file"
                      ELSE intent.Name,
                      intent.Params)
    ELSE [out |-> NoOut, err |-> Err(<<"Unknown module">>, intent.Module),
          calls |-> <<>>]

\* RouteIntent calling the handler and dropping what it returned
RouteIntentSwallowsResult(intent) ==
    IF intent.Module = "fs"
    THEN [out |-> NoOut, err |-> NoErr,
          calls |-> HandleIntent(intent.Name, intent.Params).calls]
    ELSE [out |-> NoOut, err |-> Err(<<"Unknown module">>, intent.Module),
          calls |-> <<>>]

\* the other RouteIntent of orchestrator.go: no module is implemented, and
\* canvas is told apart from an unknown module only by its message
RouteIntentStub(intent) ==
    IF intent.Module = "fs"
    THEN [out |-> NoOut, err |-> Err(<<"FS module not implemented">>, ""),
          calls |-> <<>>]
    ELSE IF intent.Module = "canvas"
    THEN [out |-> NoOut, err |-> Err(<<"Canvas module not implemented">>, ""),
          calls |-> <<>>]
    ELSE [out |-> NoOut, err |-> Err(<<"Unknown module">>, intent.Module),
          calls |-> <<>>]

\* orchestrator.RouteIntent
RouteIntent(intent) ==
    IF intent.Module = "fs"
    THEN HandleIntent(intent.Name, intent.Params)
    ELSE [out |-> NoOut, err |-> Err(<<"Unknown module">>, intent.Module),
          calls |-> <<>>]

----------------------------------------------------------------------------
(* cmd: main *)

Words == {"marco", "run", "--help", "list files in src", "delete it"}

ArgVectors == UNION {[1..n -> Words] : n \in 0..MaxArgs}

Paths == {DefaultPath, "/etc/marco.yaml"}

Envs == [custom : {"", "/etc/marco.yaml"}, homeOk : BOOLEAN,
         files : [Paths -> {"missing", "badyaml", "nokey", "sk-1"}]]

NoCfg == [ok |-> FALSE, key |-> "", err |-> NoErr]
NoClient == [set |-> FALSE, key |-> ""]
NoResp == [kind |-> "none", cause |-> "", choices |-> <<>>]
NoParse == [panic |-> FALSE, ok |-> FALSE, intent |-> ZeroIntent, err |-> NoErr]
NoRoute == [out |-> NoOut, err |-> NoErr, calls |-> <<>>]

\* goroutines that call the package, and one that is in none of its functions:
\* arg is the argument of the call it is in, key the client its LLMParse call
\* read, raced whether its Init overlapped another one, res what its
\* LLMParse call returned
Callers == 1..MaxCallers
Idle == [pc |-> "idle", arg |-> "", key |-> "", raced |-> FALSE, res |-> NoParse]

Init ==
    /\ env \in Envs
    /\ args \in ArgVectors
    /\ userAnswer \in {"yes", "no", "timeout"}
    /\ pc = "load"
    /\ cfg = NoCfg
    /\ client = NoClient
    /\ resp = NoResp
    /\ parseRes = NoParse
    /\ routeRes = NoRoute
    /\ trace = <<>>
    /\ stdout = <<>>
    /\ exitErr = NoErr
    /\ exitCode = -1
    /\ calls = [c \in Callers |-> Idle]

\* one write to standard output
Line(kind, v) == [kind |-> kind, v |-> v]

\* for key, value := range intent.Params { fmt.Printf(...) }: one line per
\* parameter (Go fixes no order; the maps of this model hold one key at most)
RECURSIVE KVLines(_, _)
KVLines(params, keys) ==
    IF keys = {} THEN <<>>
    ELSE LET k == CHOOSE x \in keys : TRUE IN
         <<Line("kv", <<k, params[k]>>)>> \o KVLines(params, keys \ {k})

\* what RunE prints of a parsed intent before routing it
IntentLines(intent) ==
    <<Line("intent", intent), Line("module", intent.Module),
      Line("name", intent.Name), Line("params", intent.Params)>>
      \o KVLines(intent.Params, DOMAIN intent.Params)

Exit(code, e) ==
    /\ pc' = "exited"
    /\ exitCode' = code
    /\ exitErr' = e

\* Execute returns e to main, which prints it: fmt.Println(err)
Report(e) ==
    /\ pc' = "reported"
    /\ exitErr' = e
    /\ stdout' = Append(stdout, Line("err", e))
    /\ UNCHANGED exitCode

\* main going on after a failed config.Load
LoadConfigIgnoresError ==
    /\ pc = "load"
    /\ cfg' = Load(env)
    /\ pc' = "init"
    /\ UNCHANGED <<calls, env, args, userAnswer, client, resp, parseRes, routeRes,
                   trace, stdout, exitErr, exitCode>>

\* cfg, err := config.Load(); on error print and os.Exit(1)
LoadConfig ==
    /\ pc = "load"
    /\ cfg' = Load(env)
    /\ IF cfg'.ok
       THEN pc' = "init" /\ UNCHANGED <<exitCode, exitErr>>
       ELSE Exit(1, Wrap("Config error", cfg'.err))
    /\ UNCHANGED <<calls, env, args, userAnswer, client, resp, parseRes, routeRes,
                   trace, stdout>>

\* main going on to Execute without calling Init
InitClientSkipped ==
    /\ pc = "init"
    /\ pc' = "execute"
    /\ UNCHANGED <<calls, env, args, userAnswer, cfg, client, resp, parseRes, routeRes,
                   trace, stdout, exitErr, exitCode>>

\* intentparser.Init(cfg.IntentParser.LLMAPIKey)
InitClient ==
    /\ pc = "init"
    /\ client' = [set |-> TRUE, key |-> cfg.key]
    /\ trace' = Append(trace, Call("Init", "", "", EmptyParams))
    /\ pc' = "execute"
    /\ UNCHANGED <<calls, env, args, userAnswer, cfg, resp, parseRes, routeRes,
                   stdout, exitErr, exitCode>>

HelpAsked(a) == \E i \in 1..Len(a) : a[i] = "--help"

\* cobra's stripFlags: the words that are not flags.  When Find runs, the help
\* flag is not registered yet, so --help is taken as a flag with a value: the
\* word after it is dropped too, and the scan stops when at most one word
\* is left after it
RECURSIVE stripFlags(_)
stripFlags(a) ==
    IF a = <<>> THEN <<>>
    ELSE IF Head(a) = "--help"
         THEN IF Len(Tail(a)) <= 1 THEN <<>> ELSE stripFlags(Tail(Tail(a)))
         ELSE <<Head(a)>> \o stripFlags(Tail(a))

\* rootCmd.Execute(): the root command is not runnable and "marco" is its only
\* subcommand; a first word that names no subcommand is an unknown command,
\* checked before the flags are parsed
CobraRoute(a) ==
    LET w == stripFlags(a) IN
    IF w = <<>> THEN "help"
    ELSE IF w[1] # "marco" THEN "unknown"
    ELSE IF HelpAsked(a) THEN "help" ELSE "run"

CobraHelp ==
    /\ pc = "execute"
    /\ CobraRoute(args) = "help"
    /\ pc' = "printed"
    /\ stdout' = Append(stdout, Line("help", ""))
    /\ UNCHANGED <<calls, env, args, userAnswer, cfg, client, resp, parseRes,
                   routeRes, trace, exitErr, exitCode>>

CobraUnknown ==
    /\ pc = "execute"
    /\ CobraRoute(args) = "unknown"
    /\ Report(Err(<<"unknown command">>, stripFlags(args)[1]))
    /\ UNCHANGED <<calls, env, args, userAnswer, cfg, client, resp, parseRes,
                   routeRes, trace>>

CobraRun ==
    /\ pc = "execute"
    /\ CobraRoute(args) = "run"
    /\ pc' = "runE"
    /\ UNCHANGED <<calls, env, args, userAnswer, cfg, client, resp, parseRes,
                   routeRes, trace, stdout, exitErr, exitCode>>

\* the arguments RunE receives
RunArgs == Tail(args)

\* input := args[0] with no argument
RunEPanic ==
    /\ pc = "runE"
    /\ RunArgs = <<>>
    /\ Exit(2, Err(<<"index out of range">>, ""))
    /\ UNCHANGED <<calls, env, args, userAnswer, cfg, client, resp, parseRes,
                   routeRes, trace, stdout>>

\* LLMParse(ctx, input) up to the call of client.Chat.Completions.New
RunEStart ==
    /\ pc = "runE"
    /\ RunArgs # <<>>
    /\ trace' = Append(trace, Call("Completions.New", "", RunArgs[1], EmptyParams))
    /\ pc' = "llm_wait"
    /\ UNCHANGED <<calls, env, args, userAnswer, cfg, client, resp, parseRes,
                   routeRes, stdout, exitErr, exitCode>>

\* what LLMParse does once New has returned r
Returned(r) ==
    /\ resp' = r
    /\ parseRes' = LLMParse(r)
    /\ IF parseRes'.panic
       THEN Exit(2, parseRes'.err)
       ELSE pc' = "parsed" /\ UNCHANGED <<exitCode, exitErr>>
    /\ UNCHANGED <<calls, env, args, userAnswer, cfg, client, routeRes, trace, stdout>>

\* the backend fails: New returns an error
BackendError ==
    /\ pc = "llm_wait"
    /\ \E c \in {"timeout", "transient"} :
          Returned([kind |-> "error", cause |-> c, choices |-> <<>>])

\* the backend answers with n choices, the first one carrying content
BackendReply ==
    /\ pc = "llm_wait"
    /\ \/ Returned([kind |-> "ok", cause |-> "", choices |-> <<>>])
       \/ \E content \in Contents, n \in 1..MaxChoices :
             Returned([kind |-> "ok", cause |-> "",
                       choices |-> [i \in 1..n |-> IF i = 1 THEN content ELSE Filler]])

\* the backend never answers: ctx is context.Background() and the call sets
\* no deadline, so New never returns
BackendSilent ==
    /\ pc = "llm_wait"
    /\ pc' = "llm_blocked"
    /\ UNCHANGED <<calls, env, args, userAnswer, cfg, client, resp, parseRes,
                   routeRes, trace, stdout, exitErr, exitCode>>

\* RunE going on to route whatever LLMParse returned
RunEAfterParseIgnoreErr ==
    /\ pc = "parsed"
    /\ pc' = "printing"
    /\ UNCHANGED <<calls, env, args, userAnswer, cfg, client, resp, parseRes,
                   routeRes, trace, stdout, exitErr, exitCode>>

\* RunE after LLMParse: return the wrapped error, which main prints, or go
\* on to print the intent
RunEAfterParse ==
    /\ pc = "parsed"
    /\ IF parseRes.ok
       THEN pc' = "printing" /\ UNCHANGED <<stdout, exitCode, exitErr>>
       ELSE Report(Wrap("parse error", parseRes.err))
    /\ UNCHANGED <<calls, env, args, userAnswer, cfg, client, resp, parseRes,
                   routeRes, trace>>

\* RunE printing the intent: each fmt.Println and fmt.Printf is a write of
\* its own; after the last one RunE goes on to route
RunEPrint ==
    /\ pc = "printing"
    /\ LET lines == IntentLines(parseRes.intent)
           n == Len(stdout) + 1 IN
         /\ stdout' = Append(stdout, lines[n])
         /\ pc' = IF n = Len(lines) THEN "route" ELSE "printing"
    /\ UNCHANGED <<calls, env, args, userAnswer, cfg, client, resp, parseRes,
                   routeRes, trace, exitErr, exitCode>>

\* out, err := orchestrator.RouteIntent(intent): RouteIntent is entered; for
\* an fs intent the handler is now running, for any other module RouteIntent
\* has already returned its error
Route ==
    /\ pc = "route"
    /\ LET r == RouteIntent(parseRes.intent) IN
         /\ trace' = trace
                       \o <<Call("RouteIntent", parseRes.intent.Module,
                                 parseRes.intent.Name, parseRes.intent.Params)>>
                       \o r.calls
         /\ IF r.calls # <<>>
            THEN pc' = "dispatching" /\ UNCHANGED routeRes
            ELSE pc' = "routed" /\ routeRes' = r
    /\ UNCHANGED <<calls, env, args, userAnswer, cfg, client, resp, parseRes,
                   stdout, exitErr, exitCode>>

\* the handler returns and RouteIntent returns its result unchanged
HandlerReturn ==
    /\ pc = "dispatching"
    /\ routeRes' = RouteIntent(parseRes.intent)
    /\ pc' = "routed"
    /\ UNCHANGED <<calls, env, args, userAnswer, cfg, client, resp, parseRes,
                   trace, stdout, exitErr, exitCode>>

\* the user cancels (SIGINT) at any point of the run: main installs no
\* signal handler and passes no cancellable context, so the Go runtime ends
\* the process at once (status 130 to the shell) and nothing is recorded
Interrupt ==
    /\ pc # "exited"
    /\ Exit(130, Err(<<"signal: interrupt">>, ""))
    /\ UNCHANGED <<calls, env, args, userAnswer, cfg, client, resp, parseRes,
                   routeRes, trace, stdout>>

\* RunE after RouteIntent: return the wrapped error, which main prints, or
\* print the output with fmt.Print(out)
RunEFinish ==
    /\ pc = "routed"
    /\ IF IsErr(routeRes.err)
       THEN Report(Wrap("exec error", routeRes.err))
       ELSE /\ pc' = "printed"
            /\ stdout' = Append(stdout, Line("out", routeRes.out))
            /\ UNCHANGED <<exitErr, exitCode>>
    /\ UNCHANGED <<calls, env, args, userAnswer, cfg, client, resp, parseRes,
                   routeRes, trace>>

\* the process ends by itself: Execute returned nil and main returns (status
\* 0), or main has printed Execute's error and calls os.Exit(1)
MainExit ==
    /\ pc \in {"printed", "reported"}
    /\ Exit(IF pc = "reported" THEN 1 ELSE 0, exitErr)
    /\ UNCHANGED <<calls, env, args, userAnswer, cfg, client, resp, parseRes,
                   routeRes, trace, stdout>>

\* the steps of the program and of the backend
Program ==
    \/ LoadConfig
    \/ InitClient
    \/ CobraHelp
    \/ CobraUnknown
    \/ CobraRun
    \/ RunEPanic
    \/ RunEStart
    \/ BackendError
    \/ BackendReply
    \/ BackendSilent
    \/ RunEAfterParse
    \/ RunEPrint
    \/ Route
    \/ HandlerReturn
    \/ RunEFinish
    \/ MainExit

Next ==
    \/ Program
    \/ Interrupt

Spec == Init /\ [][Next]_vars

\* every step of the program that can be taken is eventually taken; nothing
\* obliges the user to interrupt
FairSpec == Spec /\ WF_vars(Program)

----------------------------------------------------------------------------
(* pkg/intentparser called from several goroutines: Init and LLMParse are  *)
(* exported and take no lock, so any goroutine may call either at any time *)

Keys == {"sk-1", "sk-2"}
Texts == {"list files in src", "delete it"}

\* the client after overlapping writes, or as read while it is written
Torn == [set |-> TRUE, key |-> "torn"]

\* answers of the backend, one for each way through LLMParse
Replies ==
    {[kind |-> "error", cause |-> "transient", choices |-> <<>>],
     [kind |-> "ok", cause |-> "", choices |-> <<>>]}
      \cup {[kind |-> "ok", cause |-> "", choices |-> <<c>>] :
               c \in {NoObject("text"),
                      [kind |-> "object", module |-> Str(""),
                       intent |-> Str("list_dir"),
                       params |-> [t |-> "absent", v |-> EmptyParams]],
                      [kind |-> "object", module |-> Str("fs"),
                       intent |-> Str("list_dir"),
                       params |-> [t |-> "obj", v |-> [k \in {"path"} |-> "src"]]]}}

\* New failing in the library because the client is no client
BadClient == [kind |-> "error", cause |-> "client", choices |-> <<>>]

\* what New can return to a call that read the client with key k: with the
\* zero client the library fails, with a torn one anything may follow
Outcomes(k) ==
    IF k \in Keys THEN Replies
    ELSE IF k = "" THEN {BadClient}
    ELSE Replies \cup {BadClient}

\* goroutines in the middle of the assignment to client
Writers == {d \in Callers : calls[d].pc = "init_write"}

\* the clients a read of the package variable can yield: while Init is
\* assigning it the read races with the write
ClientRead ==
    IF Writers = {} THEN {client.key}
    ELSE {client.key, Torn.key} \cup {calls[d].arg : d \in Writers}

ParseInit ==
    /\ env = [custom |-> "", homeOk |-> TRUE, files |-> [p \in Paths |-> "sk-1"]]
    /\ args = <<>>
    /\ userAnswer = "yes"
    /\ pc = "running"
    /\ cfg = NoCfg
    /\ client = NoClient
    /\ resp = NoResp
    /\ parseRes = NoParse
    /\ routeRes = NoRoute
    /\ trace = <<>>
    /\ stdout = <<>>
    /\ exitErr = NoErr
    /\ exitCode = -1
    /\ calls = [c \in Callers |-> Idle]

\* goroutine c calls Init(apiKey): openai.NewClient builds the client and the
\* assignment to the package variable begins
InitBegin(c) ==
    /\ pc = "running"
    /\ calls[c].pc = "idle"
    /\ Len(CallsOf("Init")) < MaxInits
    /\ \E k \in Keys :
          calls' = [d \in Callers |->
                      IF d = c
                      THEN [Idle EXCEPT !.pc = "init_write", !.arg = k,
                                        !.raced = (Writers # {})]
                      ELSE IF d \in Writers
                      THEN [calls[d] EXCEPT !.raced = TRUE]
                      ELSE calls[d]]
    /\ trace' = Append(trace, Call("Init", "", "", EmptyParams))
    /\ UNCHANGED <<env, args, userAnswer, pc, cfg, client, resp, parseRes,
                   routeRes, stdout, exitErr, exitCode>>

\* the assignment to client is complete and Init returns; if it overlapped
\* another assignment the variable may hold a mix of the two
InitEnd(c) ==
    /\ pc = "running"
    /\ calls[c].pc = "init_write"
    /\ client' \in {[set |-> TRUE, key |-> calls[c].arg]}
                     \cup (IF calls[c].raced THEN {Torn} ELSE {})
    /\ calls' = [calls EXCEPT ![c] = Idle]
    /\ UNCHANGED <<env, args, userAnswer, pc, cfg, resp, parseRes,
                   routeRes, trace, stdout, exitErr, exitCode>>

\* goroutine c enters LLMParse(ctx, text), up to client.Chat.Completions.New:
\* the client is read without a check that Init has run
ParseStart(c) ==
    /\ pc = "running"
    /\ calls[c].pc = "idle"
    /\ Len(CallsOf("Completions.New")) < MaxCalls
    /\ \E t \in Texts, k \in ClientRead :
          /\ calls' = [calls EXCEPT ![c] = [Idle EXCEPT !.pc = "llm_wait",
                                                        !.arg = t, !.key = k]]
          /\ trace' = Append(trace, Call("Completions.New", "", t, EmptyParams))
    /\ UNCHANGED <<env, args, userAnswer, pc, cfg, client, resp, parseRes,
                   routeRes, stdout, exitErr, exitCode>>

\* LLMParse resetting the shared client on its way out
ParseReturnClobbersClient(c, r) ==
    /\ pc = "running"
    /\ calls[c].pc = "llm_wait"
    /\ calls' = [calls EXCEPT ![c].pc = "returned", ![c].res = LLMParse(r)]
    /\ client' = NoClient
    /\ IF LLMParse(r).panic
       THEN Exit(2, LLMParse(r).err)
       ELSE UNCHANGED <<pc, exitErr, exitCode>>
    /\ UNCHANGED <<env, args, userAnswer, cfg, resp, parseRes,
                   routeRes, trace, stdout>>

\* New returns r to goroutine c and LLMParse returns; the panic on an answer
\* without choices ends the process
ParseReturn(c, r) ==
    /\ pc = "running"
    /\ calls[c].pc = "llm_wait"
    /\ calls' = [calls EXCEPT ![c].pc = "returned", ![c].res = LLMParse(r)]
    /\ IF LLMParse(r).panic
       THEN Exit(2, LLMParse(r).err)
       ELSE UNCHANGED <<pc, exitErr, exitCode>>
    /\ UNCHANGED <<env, args, userAnswer, cfg, client, resp, parseRes,
                   routeRes, trace, stdout>>

ParseAnswer(c) == \E r \in Outcomes(calls[c].key) : ParseReturn(c, r)

\* New called on the zero client or on a torn one may also panic inside the
\* library, which ends the process
ParseCrash(c) ==
    /\ pc = "running"
    /\ calls[c].pc = "llm_wait"
    /\ calls[c].key \notin Keys
    /\ Exit(2, Err(<<"nil pointer dereference">>, ""))
    /\ UNCHANGED <<calls, env, args, userAnswer, cfg, client, resp, parseRes,
                   routeRes, trace, stdout>>

\* goroutine c takes the result and is free to call again
ParseAgain(c) ==
    /\ pc = "running"
    /\ calls[c].pc = "returned"
    /\ calls' = [calls EXCEPT ![c] = Idle]
    /\ UNCHANGED <<env, args, userAnswer, pc, cfg, client, resp, parseRes,
                   routeRes, trace, stdout, exitErr, exitCode>>

ParseNext ==
    \/ \E c \in Callers : InitBegin(c)
    \/ \E c \in Callers : InitEnd(c)
    \/ \E c \in Callers : ParseStart(c)
    \/ \E c \in Callers : ParseAnswer(c)
    \/ \E c \in Callers : ParseCrash(c)
    \/ \E c \in Callers : ParseAgain(c)

ParseSpec == ParseInit /\ [][ParseNext]_vars

----------------------------------------------------------------------------
(* The orchestration contract the program is held to *)

\* modules RouteIntent has a case for
KnownModules == {"fs"}

\* actions the fs module advertises
FsActions == {"list_dir", "find_pattern", "delete_file"}

\* fs actions that need a confirmation before dispatch
DestructiveActions == {"delete_file"}

\* parameters an fs action cannot do without
RequiredParams(name) == IF name \in {"list_dir", "delete_file"} THEN {"path"} ELSE {}

----------------------------------------------------------------------------
(* Reading the run *)

\* a ConfirmDestructive call for the intent of call i returned true before it
ConfirmedBefore(i) ==
    \E j \in 1..(i - 1) :
        /\ trace[j].op = "ConfirmDestructive"
        /\ trace[j].module = trace[i].module
        /\ trace[j].name = trace[i].name
        /\ trace[j].params = trace[i].params

\* the backend answered and its first choice carries content
HasContent == resp.kind = "ok" /\ Len(resp.choices) > 0
Raw == resp.choices[1]

\* the content is an object with these three members
IsObject(module, name, params) ==
    /\ Raw.kind = "object"
    /\ Raw.module = Str(module)
    /\ Raw.intent = Str(name)
    /\ Raw.params.t = "obj" /\ Raw.params.v = params

\* content that is not JSON of the Intent shape
Malformed(raw) ==
    \/ raw.kind \in {"text", "array"}
    \/ raw.kind = "object"
         /\ (raw.module.t = "num" \/ raw.intent.t = "num" \/ raw.params.t = "bad")

\* how the command ended
Outcome ==
    IF pc # "exited" THEN "Running"
    ELSE IF exitCode = 0 THEN "Done"
    ELSE "Failed"

\* the process was ended by a cancellation signal
Interrupted == pc = "exited" /\ exitErr.chain = <<"signal: interrupt">>

\* the process ended by itself: main returned, called os.Exit or panicked
Finished == pc = "exited" /\ ~Interrupted

\* config.Load has returned to main
LoadReturned == pc # "load" /\ ~(Interrupted /\ ~cfg.ok)

\* RouteIntent has returned
RouteReturned ==
    /\ pc \in {"routed", "printed", "reported", "exited"}
    /\ Len(CallsOf("RouteIntent")) = 1
    /\ routeRes # NoRoute

\* the lines of one kind on standard output
Printed(kind) == SelectSeq(stdout, LAMBDA l : l.kind = kind)

SrcParams == [k \in {"path"} |-> "src"]

----------------------------------------------------------------------------
(* Claims *)

\* C1: a destructive action reaches a module handler only after a
\* ConfirmDestructive call for the same intent has returned true.
C1_DestructiveNeedsConfirmation ==
    \A i \in DOMAIN trace :
        (trace[i].op = "HandleIntent" /\ trace[i].name \in DestructiveActions)
            => ConfirmedBefore(i)

\* C2: a module handler is invoked only for an intent whose module is
\* registered, whose action is in the module's capability set and whose
\* parameters pass the schema of (module, action).
C2_OnlyEligibleIntentsHandled ==
    \A i \in DOMAIN trace :
        trace[i].op = "HandleIntent"
            => /\ trace[i].module \in KnownModules
               /\ trace[i].name \in FsActions
               /\ RequiredParams(trace[i].name) \subseteq DOMAIN trace[i].params

\* C3: an intent whose module is not known fails at routing with an error that
\* names the module; no handler is invoked, routing is tried once, and when
\* the command ends by itself the error has reached the caller wrapped: exit
\* status 1, the error printed, no module output printed.
C3_UnknownModuleFails ==
    /\ (parseRes.ok /\ parseRes.intent.Module \notin KnownModules)
         => Len(CallsOf("HandleIntent")) = 0 /\ Len(CallsOf("RouteIntent")) <= 1
    /\ (RouteReturned /\ parseRes.intent.Module \notin KnownModules)
         => /\ routeRes.err.chain = <<"Unknown module">>
            /\ routeRes.err.subject = parseRes.intent.Module
            /\ Len(CallsOf("RouteIntent")) = 1
            /\ Finished
                 => /\ exitCode = 1
                    /\ exitErr.chain = <<"exec error", "Unknown module">>
                    /\ exitErr.subject = parseRes.intent.Module
                    /\ Printed("err") = <<Line("err", exitErr)>>
                    /\ Printed("out") = <<>>

C3_Witness ==
    /\ pc = "exited" /\ parseRes.ok
    /\ parseRes.intent.Module = "canvas"
    /\ exitCode = 1

\* C4: once routing has begun, and when the command has ended by itself, an
\* intent with module and action name was handed to the router exactly once;
\* an intent with one of them missing or malformed is never handed to the
\* router nor to a module, and the command ends with status 1.
C4_DispatchIffValidated ==
    HasContent
        => LET u == Unmarshal(Raw)
               valid == u.ok /\ u.intent.Module # "" /\ u.intent.Name # ""
           IN  /\ (valid /\ (pc \in {"dispatching", "routed"} \/ Finished))
                    => CallsOf("RouteIntent")
                         = <<Call("RouteIntent", u.intent.Module,
                                  u.intent.Name, u.intent.Params)>>
               /\ ~valid => /\ Len(CallsOf("RouteIntent")) = 0
                            /\ Len(CallsOf("HandleIntent")) = 0
                            /\ Finished => exitCode = 1

C4_Witness ==
    /\ pc = "exited" /\ HasContent
    /\ Raw.kind = "object" /\ Raw.module = Str("fs") /\ Raw.intent = Str("")
    /\ Raw.params.t = "obj"
    /\ Len(CallsOf("HandleIntent")) = 0

\* C5: when the backend fails, the command ends with the backend called
\* exactly twice, the second call being the one retry.
C5_ExactlyOneRetry ==
    (Finished /\ resp.kind = "error")
        => Len(CallsOf("Completions.New")) = 2

\* C6: every classification call eventually returns, also when the backend
\* never answers.
C6_ClassificationReturns ==
    (pc = "llm_wait") ~> (pc \notin {"llm_wait", "llm_blocked"})

\* C7 as stated: content that does not parse as an intent yields a result
\* rather than an error, and the command does not fail with a parse error.
C7_UnparsableIsCandidate ==
    (pc \in {"parsed", "exited"} /\ HasContent /\ Malformed(Raw))
        => /\ ~IsErr(parseRes.err)
           /\ ~(IsErr(exitErr) /\ Head(exitErr.chain) = "parse error")

\* C7: content that does not parse as an intent makes LLMParse return no
\* intent and the error "invalid JSON from LLM" carrying the content; the
\* router is never called, and the command, when it ends by itself, fails
\* with that error wrapped as a parse error, exit status 1.
C7_UnparsableIsParseError ==
    (pc \in {"parsed", "exited"} /\ HasContent /\ Malformed(Raw))
        => /\ ~parseRes.ok
           /\ parseRes.intent = ZeroIntent
           /\ parseRes.err.chain = <<"invalid JSON from LLM">>
           /\ parseRes.err.subject = Raw
           /\ Len(CallsOf("RouteIntent")) = 0
           /\ Finished
                => /\ exitCode = 1
                   /\ exitErr.chain = <<"parse error", "invalid JSON from LLM">>
                   /\ exitErr.subject = Raw

C7_Witness ==
    /\ pc = "exited" /\ HasContent
    /\ Raw.kind = "text"
    /\ exitCode = 1

\* C8: the intent fs list_dir {path: src} is dispatched to the fs handler with
\* exactly that action and those parameters, the command (unless it is
\* cancelled meanwhile) succeeds printing the handler's output, and no
\* clarification question is ever asked.
C8_CompleteIntentDispatched ==
    /\ Len(CallsOf("AskUser")) = 0
    /\ (HasContent /\ IsObject("fs", "list_dir", SrcParams)
          /\ (pc \in {"dispatching", "routed"} \/ Finished))
         => /\ CallsOf("HandleIntent")
                 = <<Call("HandleIntent", "fs", "list_dir", SrcParams)>>
            /\ Finished
                 => /\ exitCode = 0
                    /\ Printed("out")
                         = <<Line("out", [text |-> "Handled fs intent",
                                          name |-> "list_dir",
                                          params |-> SrcParams])>>

C8_Witness ==
    /\ pc = "exited" /\ HasContent /\ IsObject("fs", "list_dir", SrcParams)
    /\ args = <<"marco", "list files in src">>
    /\ exitCode = 0

\* C9: a destructive intent with its target parameter missing ends in a
\* clarification request: it is not dispatched and does not fail.
C9_UnderspecifiedAsksUser ==
    (Finished /\ HasContent /\ IsObject("fs", "delete_file", EmptyParams))
        => /\ Len(CallsOf("HandleIntent")) = 0
           /\ Len(CallsOf("AskUser")) > 0
           /\ Outcome # "Failed"

\* C10: when the user would answer no, or not answer, to the confirmation of
\* a destructive action, the command ends Cancelled and no handler is invoked.
C10_RefusedIsCancelled ==
    (Finished /\ parseRes.ok /\ parseRes.intent.Module = "fs"
       /\ parseRes.intent.Name \in DestructiveActions
       /\ userAnswer \in {"no", "timeout"})
        => /\ Len(CallsOf("HandleIntent")) = 0
           /\ Outcome = "Cancelled"

\* C11: a write or destructive action reaches the module handler at most once
\* in a command, and a read-only action at most twice.
C11_NoAutoRetry ==
    /\ Len(SelectSeq(trace, LAMBDA c : c.op = "HandleIntent"
                                        /\ c.name \in DestructiveActions)) <= 1
    /\ Len(SelectSeq(trace, LAMBDA c : c.op = "HandleIntent"
                                        /\ c.name \notin DestructiveActions)) <= 2

C11_Witness ==
    /\ pc = "exited" /\ exitCode = 0
    /\ CallsOf("HandleIntent") = <<Call("HandleIntent", "fs", "delete_file", SrcParams)>>

\* C12: a cancellation while the module call is in flight ends the command
\* Uncertain for a destructive action and Cancelled for any other.
C12_CancelMidDispatch ==
    (Interrupted /\ Len(CallsOf("HandleIntent")) = 1 /\ routeRes = NoRoute)
        => Outcome = (IF parseRes.intent.Name \in DestructiveActions
                      THEN "Uncertain" ELSE "Cancelled")

\* C14: the module call starts only after the classification of the command
\* has returned an intent, at most one module call is ever made and it is in
\* flight exactly while RouteIntent runs, and the command classifies once.
C14_StepsSequential ==
    /\ Len(CallsOf("Completions.New")) <= 1
    /\ Len(CallsOf("HandleIntent")) <= 1
    /\ pc = "dispatching" => Len(CallsOf("HandleIntent")) = 1
    /\ pc \in {"load", "init", "execute", "runE", "llm_wait", "llm_blocked",
               "parsed", "printing", "route"}
         => Len(CallsOf("RouteIntent")) = 0 /\ Len(CallsOf("HandleIntent")) = 0
    /\ \A i \in DOMAIN trace :
         trace[i].op \in {"RouteIntent", "HandleIntent"}
            => /\ parseRes.ok
               /\ \E j \in 1..(i - 1) : trace[j].op = "Completions.New"

C14_Witness ==
    /\ pc = "dispatching"
    /\ Len(CallsOf("HandleIntent")) = 1
    /\ Len(CallsOf("Completions.New")) = 1

\* C15 as stated: every execution calls Init exactly once, and before the
\* first LLMParse call.
C15_InitExactlyOnce ==
    /\ Finished => Len(CallsOf("Init")) = 1
    /\ \A i \in DOMAIN trace :
         trace[i].op = "Completions.New"
            => \E j \in 1..(i - 1) : trace[j].op = "Init"

\* C15: Init is called at most once, exactly once in every execution whose
\* configuration loads (and that no signal ends before) and never when it
\* does not, and always before the first LLMParse call, which finds the
\* client set with the configured key.
C15_InitOnceBeforeParse ==
    /\ Len(CallsOf("Init")) <= 1
    /\ (cfg.ok /\ pc \notin {"load", "init"} /\ ~Interrupted)
         => Len(CallsOf("Init")) = 1 /\ client = [set |-> TRUE, key |-> cfg.key]
    /\ client.set = (Len(CallsOf("Init")) = 1)
    /\ ~cfg.ok => Len(CallsOf("Init")) = 0 /\ Len(CallsOf("Completions.New")) = 0
    /\ \A i \in DOMAIN trace :
         trace[i].op = "Completions.New"
            => client.set /\ \E j \in 1..(i - 1) : trace[j].op = "Init"

C15_Witness ==
    /\ pc = "llm_wait"
    /\ Len(CallsOf("Init")) = 1
    /\ client.set

\* C16: with any number of LLMParse calls running side by side and beside
\* calls of Init, no step of LLMParse changes the package-level client or any
\* other process-wide state (environment, standard output); every change of
\* the client is the assignment in Init.
C16_OnlyInitWritesClient ==
    [][/\ (\E c \in Callers :
             /\ calls'[c] # calls[c]
             /\ calls[c].pc \in {"llm_wait", "returned"} \/ calls'[c].pc = "llm_wait")
            => UNCHANGED <<client, env, stdout>>
       /\ client' # client
            => \E c \in Callers :
                  calls[c].pc = "init_write" /\ calls'[c].pc = "idle"]_vars

C16_Witness ==
    /\ calls[1].pc = "llm_wait" /\ calls[1].key = "torn"
    /\ calls[2].pc = "init_write"
    /\ Len(CallsOf("Completions.New")) = 2
    /\ client = [set |-> TRUE, key |-> "sk-1"]

\* C17: whatever the backend answers, LLMParse ends with an intent or an
\* error value and never aborts.
C17_TypedOutcome ==
    resp.kind = "ok" => ~parseRes.panic

\* C18: the outcome of routing is the same function of the intent's module,
\* action and parameters in every run, whatever the environment, the command
\* line and the rest of the backend's answer.
C18_OutcomeDependsOnIntentOnly ==
    RouteReturned
        => LET i == parseRes.intent IN
           IF i.Module = "fs"
           THEN /\ ~IsErr(routeRes.err)
                /\ routeRes.out = [text |-> "Handled fs intent", name |-> i.Name,
                                   params |-> i.Params]
           ELSE /\ routeRes.out = NoOut
                /\ routeRes.err.chain = <<"Unknown module">>
                /\ routeRes.err.subject = i.Module

C18_Witness ==
    /\ pc = "routed"
    /\ env.custom # ""
    /\ parseRes.intent.Module = "fs"
    /\ ~IsErr(routeRes.err)

\* C19: the handler that is invoked and its arguments are decided by the
\* intent's module, action and parameters alone, never by the user's text.
C19_TextNeverDecidesDispatch ==
    Len(CallsOf("RouteIntent")) > 0
        => CallsOf("HandleIntent")
             = (IF parseRes.intent.Module = "fs"
                THEN <<Call("HandleIntent", "fs", parseRes.intent.Name,
                            parseRes.intent.Params)>>
                ELSE <<>>)

C19_Witness ==
    /\ pc = "dispatching"
    /\ args = <<"marco", "delete it">>
    /\ CallsOf("HandleIntent") = <<Call("HandleIntent", "fs", "list_dir", SrcParams)>>

\* C20: the command line run "<text>" has the text classified and is not
\* rejected as an unknown command.
C20_RunSubcommand ==
    (Finished /\ args = <<"run", "list files in src">>)
        => /\ Len(CallsOf("Completions.New")) = 1
           /\ exitErr.chain # <<"unknown command">>

\* C21: an intent for the canvas module is dispatched to a Canvas handler
\* and is not rejected, neither as unknown nor as not implemented.
C21_CanvasDispatched ==
    (RouteReturned /\ parseRes.intent.Module = "canvas")
        => /\ ~IsErr(routeRes.err)
           /\ ~IsErr(RouteIntentStub(parseRes.intent).err)
           /\ Len(SelectSeq(trace, LAMBDA c : c.op = "HandleIntent"
                                               /\ c.module = "canvas")) = 1

\* LLMParse has returned to RunE
ParseReturned == resp.kind # "none" /\ ~parseRes.panic

\* C22: LLMParse returns either an intent with module and action name and no
\* error, or no intent and an error: the error on a backend error, on content
\* that is not JSON of the Intent shape and on an empty module or action
\* name.  Every intent handed to RouteIntent has a module and an action name.
C22_IntentXorError ==
    /\ ParseReturned
         => /\ parseRes.ok = ~IsErr(parseRes.err)
            /\ parseRes.ok
                 => parseRes.intent.Module # "" /\ parseRes.intent.Name # ""
            /\ ~parseRes.ok => parseRes.intent = ZeroIntent
            /\ parseRes.ok
                 = (/\ HasContent
                    /\ Raw.kind = "object"
                    /\ Raw.module.t = "str" /\ Raw.module.v # ""
                    /\ Raw.intent.t = "str" /\ Raw.intent.v # ""
                    /\ Raw.params.t # "bad")
    /\ \A i \in DOMAIN trace :
         trace[i].op = "RouteIntent"
            => trace[i].module # "" /\ trace[i].name # ""

C22_Witness ==
    /\ pc = "exited" /\ HasContent
    /\ Raw.kind = "object" /\ Raw.module = Str("") /\ Raw.intent = Str("list_dir")
    /\ IsErr(parseRes.err)
    /\ parseRes.err.chain = <<"parsed JSON missing fields">>

\* C23: RouteIntent calls the fs handler exactly when the module is fs, with
\* the intent's action name and parameters; it returns what the handler
\* returned; the intent is after routing what was parsed from the answer.
C23_RouteIsPassThrough ==
    /\ Len(CallsOf("RouteIntent")) > 0
         => /\ (Len(CallsOf("HandleIntent")) = 1) = (parseRes.intent.Module = "fs")
            /\ Len(CallsOf("HandleIntent")) <= 1
            /\ \A i \in DOMAIN trace :
                 trace[i].op = "HandleIntent"
                    => /\ trace[i].name = parseRes.intent.Name
                       /\ trace[i].params = parseRes.intent.Params
            /\ parseRes.intent = Unmarshal(Raw).intent
    /\ (RouteReturned /\ parseRes.intent.Module = "fs")
         => LET h == HandleIntent(parseRes.intent.Name, parseRes.intent.Params)
            IN  routeRes.out = h.out /\ IsErr(routeRes.err) = IsErr(h.err)

C23_Witness ==
    /\ pc = "routed"
    /\ parseRes.intent = [Module |-> "fs", Name |-> "frobnicate", Params |-> SrcParams]
    /\ routeRes.out.name = "frobnicate"

\* the file Load is to read
ConfigFile == env.files[IF env.custom # "" THEN env.custom ELSE DefaultPath]

\* C24: Load returns a configuration only when the file was read, parsed and
\* holds a non-empty key, and otherwise no configuration and an error; the
\* key Init is given is never empty.
C24_LoadedKeyNonEmpty ==
    /\ LoadReturned
         => /\ cfg.ok = ~IsErr(cfg.err)
            /\ cfg.ok => /\ ConfigFile \notin {"missing", "badyaml", "nokey"}
                         /\ cfg.key = ConfigFile
                         /\ cfg.key # ""
            /\ ~cfg.ok => cfg.key = ""
    /\ client.set => client.key # "" /\ client.key = ConfigFile
    /\ Len(CallsOf("Completions.New")) > 0 => client.set

C24_Witness ==
    /\ pc = "llm_wait"
    /\ env.custom # ""
    /\ client.key = "sk-1"

\* C25: when the configuration does not load, the process ends with status 1
\* and the configuration error, whatever the command line, with no Init, no
\* classifier call and no module call.
C25_ConfigFailureExitsFirst ==
    (LoadReturned /\ ~cfg.ok)
        => /\ pc = "exited"
           /\ exitCode = 1
           /\ exitErr.chain = <<"Config error">> \o cfg.err.chain
           /\ trace = <<>>
           /\ ~client.set

C25_Witness ==
    /\ pc = "exited" /\ ~cfg.ok
    /\ args = <<"--help">>
    /\ exitCode = 1

\* C26: with CLI_AGENT_CONFIG set, whether Load succeeds depends only on the
\* file at that path, not on the home directory.
C26_OverrideIgnoresHome ==
    (LoadReturned /\ env.custom # "")
        => cfg.ok = (env.files[env.custom] \notin {"missing", "badyaml", "nokey"})

\* C27: the module's output is printed, and the status is 0 after a command,
\* only when classification and routing both succeeded; when classification
\* fails the router is never called; every classification or routing error
\* ends the process, when it ends by itself, with status 1 and the error,
\* wrapped, as the printed message.
C27_ExitReflectsPipeline ==
    /\ (Printed("out") # <<>>
           \/ (exitCode = 0 /\ Len(CallsOf("Completions.New")) > 0))
         => /\ parseRes.ok
            /\ RouteReturned /\ ~IsErr(routeRes.err)
            /\ Printed("out") = <<Line("out", routeRes.out)>>
    /\ (resp.kind # "none" /\ ~parseRes.ok)
         => /\ Len(CallsOf("RouteIntent")) = 0
            /\ Finished
                 => /\ exitCode = 1
                    /\ exitErr.chain = <<"parse error">> \o parseRes.err.chain
                    /\ parseRes.err.chain # <<>>
                    /\ Printed("err") = <<Line("err", exitErr)>>
    /\ (Finished /\ RouteReturned /\ IsErr(routeRes.err))
         => /\ exitCode = 1
            /\ exitErr.chain = <<"exec error">> \o routeRes.err.chain
            /\ exitErr.subject = routeRes.err.subject
            /\ Printed("err") = <<Line("err", exitErr)>>
            /\ Printed("out") = <<>>

====
